---- MODULE Spec2Model ----
(***************************************************************************)
(* A model of retake-earth/connect: the realtime pipeline                  *)
(* (src/realtime/app.py: register_agents, the process_records agent and    *)
(* the producer it hands its output to), the sync handler of the sidecar   *)
(* (src/sync/sidecar.py) and the search client (src/core/search/client.py).*)
(***************************************************************************)
EXTENDS Integers, Sequences, FiniteSets, TLC

\* ------------------------------------------------------------- bounds

\* Records consumed from the source topic, over all agents.
MaxRecords == 2

\* register_agents calls (one agent each).
AgentIds == {1, 2}

SchemaIds == {1, 2}
Topics == {"source"}
Indexes == {"index"}
RowIds == {"1"}

\* Requests the sync handler handles.
MaxRequests == 2

Schemas == {"s1", "s2"}

\* Calls of Client started.
MaxCalls == 3

CallerIds == {1, 2}
IndexNames == {"a", "b"}

\* ------------------------------------------------------------- state

VARIABLES
  agent,           \* per register_agents call: its arguments and the agent task's status
  clientCache,     \* per registry client (one per agent): the schema ids it has cached
  registryCalls,   \* per schema id: get_schema round trips made to the schema registry
  log,             \* per agent: what process_records did with each record it consumed
  queue,           \* per agent: the messages handed to producer.produce, with their fate
  sink,            \* per destination topic: the messages delivered to it, in order
  reports,         \* delivery reports handed back to the pipeline
  busy,            \* the embedding_fn call the event loop is inside of, if any
  \* src/sync/sidecar.py
  schemaFile,      \* the content of schema.json
  requests,        \* what the sync handler did with each request
  daemons,         \* the pgsync daemons started, and the schema each has read
  \* src/core/search/client.py
  indices,         \* the indices that exist on the search server
  callers,         \* per caller of Client: where it is in create_index
  clientCalls      \* the calls of Client that have ended, with their results

appVars == <<agent, clientCache, registryCalls, log, queue, sink, reports, busy>>
syncVars == <<schemaFile, requests, daemons>>
clientVars == <<indices, callers, clientCalls>>

vars == <<appVars, syncVars, clientVars>>

\* ------------------------------------------------------- python values

\* A Python dict is a sequence of <<key, value>> pairs in insertion order.
HasKey(d, k) == \E i \in DOMAIN d : d[i][1] = k

GetItem(d, k) == d[CHOOSE i \in DOMAIN d : d[i][1] = k][2]

Pop(d, k) == SelectSeq(d, LAMBDA e : e[1] # k)

\* *payload: unpacking a dict yields its keys, in order.
Unpack(d) == [i \in DOMAIN d |-> d[i][1]]

\* ------------------------------------------------------- source records

IdPart == {<< <<"id", r>> >> : r \in RowIds}
TextPart == {<< <<"text", "hello">> >>}
DeletedPart == {<<>>, << <<"__deleted", "true">> >>, << <<"__deleted", "false">> >>}

Payloads == {i \o t \o d : i \in IdPart, t \in TextPart, d \in DeletedPart}

\* Parsed JSON documents: an object with a payload, or one without.
Docs == {<<>>} \cup {<< <<"payload", p>> >> : p \in Payloads}

NoneRecord == [kind |-> "none", valid |-> FALSE, doc |-> <<>>]
InvalidJson == [kind |-> "bytes", valid |-> FALSE, doc |-> <<>>]

\* What the stream can yield: None, bytes that are not JSON, bytes of a document.
RawRecords ==
  {NoneRecord, InvalidJson} \cup {[kind |-> "bytes", valid |-> TRUE, doc |-> d] : d \in Docs}

\* json.loads: the document the bytes encode, or JSONDecodeError.
json_loads(record) ==
  IF record.valid
    THEN [ok |-> TRUE, value |-> record.doc, error |-> ""]
    ELSE [ok |-> FALSE, value |-> <<>>, error |-> "JSONDecodeError"]

\* ---------------------------------------------------- injected functions

\* The injected functions are deterministic functions of their arguments.
transform_fn(args) == <<"document", args>>

embedding_fn(document) ==
  [dtype |-> "float32",
   data |-> <<Len(document[2]), IF \E i \in DOMAIN document[2] : document[2][i] = "text" THEN 1 ELSE 0>>]

metadata_fn(args) == <<"meta">> \o args

\* ndarray.tolist()
tolist(embedding) == embedding.data

\* As avro_serializer, with the count of the messages produced so far in the envelope.
avro_serializer_Stamped(schema_id, message) ==
  [magic |-> 0, schema_id |-> schema_id,
   body |-> <<message.doc, message.metadata, Len(queue[1]) + Len(queue[2])>>]

\* AvroSerializer.__call__: magic byte, schema id, the fields in schema order.
avro_serializer(schema_id, message) ==
  [magic |-> 0, schema_id |-> schema_id, body |-> <<message.doc, message.metadata>>]

\* The stage a call raises in, drawn by the environment.
Faults == {"none", "transform_fn", "embedding_fn", "metadata_fn", "avro_serializer", "produce"}

\* --------------------------------------------------------- initial state

None == "None"

Unregistered ==
  [registered |-> FALSE, topic |-> None, index |-> None, schema_id |-> 0,
   has_metadata_fn |-> FALSE, status |-> "absent"]

\* The event loop is inside no call.
Idle == [agent |-> 0, record |-> NoneRecord, fault |-> "none"]

Init ==
  /\ agent = [a \in AgentIds |-> Unregistered]
  /\ clientCache = [a \in AgentIds |-> {}]
  /\ registryCalls = [s \in SchemaIds |-> 0]
  /\ log = [a \in AgentIds |-> <<>>]
  /\ queue = [a \in AgentIds |-> <<>>]
  /\ sink = [x \in Indexes |-> <<>>]
  /\ reports = <<>>
  /\ busy = Idle
  /\ schemaFile = "absent"
  /\ requests = <<>>
  /\ daemons = <<>>
  /\ indices = {}
  /\ callers = [c \in CallerIds |-> [pc |-> "idle", name |-> ""]]
  /\ clientCalls = <<>>

\* ------------------------------------------------------ register_agents

\* SchemaRegistryClient({...}): a new client, with nothing cached.
SchemaRegistryClient(a) == {}

\* return_schema: get_schema on the client it is given. The client answers from its
\* cache; an id it has not cached costs one round trip to the registry.
return_schema(cache, calls, schema_id) ==
  [cache |-> cache \cup {schema_id},
   calls |-> IF schema_id \in cache THEN calls ELSE [calls EXCEPT ![schema_id] = @ + 1]]

\* register_agents builds a new registry client, resolves the schema, builds the
\* serializer and the producer, and registers the agent on the source topic.
RegisterAgents(a) ==
  /\ ~agent[a].registered
  /\ \A b \in AgentIds : b < a => agent[b].registered
  /\ \E topic \in Topics, index \in Indexes, schema_id \in SchemaIds, has_metadata_fn \in BOOLEAN :
       /\ LET r == return_schema(SchemaRegistryClient(a), registryCalls, schema_id)
          IN  /\ clientCache' = [clientCache EXCEPT ![a] = r.cache]
              /\ registryCalls' = r.calls
       /\ agent' = [agent EXCEPT ![a] =
            [registered |-> TRUE, topic |-> topic, index |-> index, schema_id |-> schema_id,
             has_metadata_fn |-> has_metadata_fn, status |-> "running"]]
  /\ UNCHANGED <<log, queue, sink, reports, busy>>
  /\ UNCHANGED <<syncVars, clientVars>>

\* ------------------------------------------------------ process_records

IsDeleted_CapitalTrue(payload) == GetItem(payload, "__deleted") = "True"

\* payload["__deleted"] == "true"
IsDeleted(payload) == GetItem(payload, "__deleted") = "true"

\* The arguments process_records gives transform_fn and metadata_fn: *payload.
CallArgs(payload) == Unpack(payload)

\* The key producer.produce is given: none.
ProduceKey(payload) == None

Metadata_Unconditional(cfg, args) == metadata_fn(args)

\* metadata = []; if metadata_fn is not None: metadata = metadata_fn(*payload)
Metadata(cfg, args) == IF cfg.has_metadata_fn THEN metadata_fn(args) ELSE <<>>

Enqueue_Front(q, msgs) == msgs \o q

\* producer.produce: the message joins the producer's queue, behind those before it.
Enqueue(q, msgs) == q \o msgs

Raised(error, calls) ==
  [outcome |-> "raised", error |-> error, calls |-> calls, produced |-> <<>>]

Done(outcome, calls, produced) ==
  [outcome |-> outcome, error |-> "", calls |-> calls, produced |-> produced]

\* The upsert branch: lines 53-67.
Upsert(cfg, payload0, fault) ==
  LET payload == Pop(payload0, "__deleted")
      args == CallArgs(payload)
      c1 == << <<"transform_fn", args>> >>
      document == transform_fn(args)
      c2 == Append(c1, <<"embedding_fn", document>>)
      embedding == embedding_fn(document)
      c3 == IF cfg.has_metadata_fn THEN Append(c2, <<"metadata_fn", args>>) ELSE c2
      metadata == Metadata(cfg, args)
      message == [doc |-> tolist(embedding), metadata |-> metadata]
      value == avro_serializer(cfg.schema_id, message)
  IN  IF fault = "transform_fn" THEN Raised("transform_fn", c1)
      ELSE IF fault = "embedding_fn" THEN Raised("embedding_fn", c2)
      ELSE IF cfg.has_metadata_fn /\ fault = "metadata_fn" THEN Raised("metadata_fn", c3)
      ELSE IF fault = "avro_serializer" THEN Raised("avro_serializer", c3)
      ELSE IF fault = "produce" THEN Raised("produce", c3)
      ELSE Done("produced", c3,
                << [topic |-> cfg.index, key |-> ProduceKey(payload), value |-> value] >>)

\* The delete branch: line 50, a print.
Delete(cfg, payload) == Done("deleted", <<>>, <<>>)

\* One iteration of the loop of process_records: lines 45-67.
process_record(cfg, record, fault) ==
  IF record = NoneRecord THEN Done("skipped", <<>>, <<>>)
  ELSE LET data == json_loads(record) IN
    IF ~data.ok THEN Raised(data.error, <<>>)
    ELSE IF ~HasKey(data.value, "payload") THEN Raised("KeyError", <<>>)
    ELSE LET payload == GetItem(data.value, "payload") IN
      IF ~HasKey(payload, "__deleted") THEN Raised("KeyError", <<>>)
      ELSE IF IsDeleted(payload) THEN Delete(cfg, payload)
      ELSE Upsert(cfg, payload, fault)

Consumed == Len(log[1]) + Len(log[2])

\* The agent takes the next record of its stream and runs the loop body on it. The
\* body has no await: it runs to its end, or to the exception that ends the task.
\* A record is acknowledged when the loop comes back for the next one.
Handle(a, record, fault) ==
       LET r == process_record(agent[a], record, fault)
           n == Len(log[a]) + 1
       IN  /\ log' = [log EXCEPT ![a] = Append(@,
                 [record |-> record, outcome |-> r.outcome, error |-> r.error,
                  calls |-> r.calls, acked |-> r.outcome # "raised"])]
           /\ queue' = [queue EXCEPT ![a] = Enqueue(@,
                 [i \in DOMAIN r.produced |->
                    [topic |-> r.produced[i].topic, key |-> r.produced[i].key,
                     value |-> r.produced[i].value, src |-> n, status |-> "queued"]])]
           /\ agent' = [agent EXCEPT ![a].status =
                 IF r.outcome = "raised" THEN "crashed" ELSE @]

\* The event loop runs one task at a time: a task gets to run when no other is
\* inside a call.
ProcessRecord(a) ==
  /\ busy = Idle
  /\ agent[a].registered
  /\ agent[a].status = "running"
  /\ Consumed < MaxRecords
  /\ \E record \in RawRecords, fault \in Faults : Handle(a, record, fault)
  /\ UNCHANGED <<clientCache, registryCalls, sink, reports, busy>>
  /\ UNCHANGED <<syncVars, clientVars>>

\* The record's payload reaches line 55: a well-formed upsert whose transform_fn
\* returned.
ReachesEmbedding(record, fault) ==
  /\ record.valid
  /\ HasKey(record.doc, "payload")
  /\ HasKey(GetItem(record.doc, "payload"), "__deleted")
  /\ ~IsDeleted(GetItem(record.doc, "payload"))
  /\ fault # "transform_fn"

\* embedding = embedding_fn(document): a plain call inside the coroutine, neither
\* awaited nor handed to an executor. While it runs the event loop is inside it.
StartEmbedding(a) ==
  /\ busy = Idle
  /\ agent[a].registered
  /\ agent[a].status = "running"
  /\ Consumed < MaxRecords
  /\ \E record \in RawRecords, fault \in Faults :
       /\ ReachesEmbedding(record, fault)
       /\ busy' = [agent |-> a, record |-> record, fault |-> fault]
  /\ UNCHANGED <<agent, clientCache, registryCalls, log, queue, sink, reports>>
  /\ UNCHANGED <<syncVars, clientVars>>

\* The call returns or raises, and the loop body runs to its end.
FinishEmbedding(a) ==
  /\ busy.agent = a
  /\ Handle(a, busy.record, busy.fault)
  /\ busy' = Idle
  /\ UNCHANGED <<clientCache, registryCalls, sink, reports>>
  /\ UNCHANGED <<syncVars, clientVars>>

\* @app.agent: the agent runs under the framework's supervisor, which may start a
\* new process_records task in place of one an exception has ended. The new task
\* goes on with the records after the one that raised.
RestartAgent(a) ==
  /\ busy = Idle
  /\ agent[a].status = "crashed"
  /\ agent' = [agent EXCEPT ![a].status = "running"]
  /\ UNCHANGED <<clientCache, registryCalls, log, queue, sink, reports, busy>>
  /\ UNCHANGED <<syncVars, clientVars>>

\* ------------------------------------------------------------ producer

\* The on_delivery callback producer.produce is given: none.
on_delivery == None

Queued(a) == {i \in DOMAIN queue[a] : queue[a][i].status = "queued"}

\* The producer's background thread sends the oldest queued message: it is delivered
\* to the destination topic, or the delivery fails. The delivery report goes to the
\* on_delivery callback when there is one.
Deliver(a) ==
  /\ Queued(a) # {}
  /\ LET i == CHOOSE j \in Queued(a) : \A k \in Queued(a) : j <= k
         m == queue[a][i]
     IN \E ok \in BOOLEAN :
          /\ queue' = [queue EXCEPT ![a][i].status = IF ok THEN "delivered" ELSE "failed"]
          /\ sink' = IF ok
               THEN [sink EXCEPT ![m.topic] =
                       Append(@, [key |-> m.key, value |-> m.value, agent |-> a, src |-> m.src])]
               ELSE sink
          /\ reports' = IF on_delivery # None
               THEN Append(reports, [agent |-> a, src |-> m.src, ok |-> ok])
               ELSE reports
  /\ UNCHANGED <<agent, clientCache, registryCalls, log, busy>>
  /\ UNCHANGED <<syncVars, clientVars>>

\* ------------------------------------------------------- specification

Next ==
  \/ \E a \in AgentIds : RegisterAgents(a)
  \/ \E a \in AgentIds : ProcessRecord(a)
  \/ \E a \in AgentIds : RestartAgent(a)
  \/ \E a \in AgentIds : Deliver(a)

Spec == Init /\ [][Next]_vars

\* The same pipeline with the embedding call taking time.
SlowNext ==
  \/ \E a \in AgentIds : RegisterAgents(a)
  \/ \E a \in AgentIds : ProcessRecord(a)
  \/ \E a \in AgentIds : StartEmbedding(a)
  \/ \E a \in AgentIds : FinishEmbedding(a)
  \/ \E a \in AgentIds : RestartAgent(a)
  \/ \E a \in AgentIds : Deliver(a)

SlowSpec == Init /\ [][SlowNext]_vars

\* ------------------------------------------------- sidecar: sync handler

ConnFields == {"source_host", "source_port", "source_user", "source_password"}

\* The source object of a request: every connection field, or all but one.
SourceChoices == {ConnFields} \cup {ConnFields \ {f} : f \in ConnFields}

InvalidBody ==
  [valid |-> FALSE, has_source |-> FALSE, source |-> {}, schema |-> "absent"]

\* Request bodies: bytes that are not JSON, or a JSON object with or without
\* "source" (a set of keys) and "schema".
Bodies ==
  {InvalidBody}
  \cup {[valid |-> TRUE, has_source |-> FALSE, source |-> {}, schema |-> sc] :
          sc \in Schemas \cup {"absent"}}
  \cup {[valid |-> TRUE, has_source |-> TRUE, source |-> src, schema |-> sc] :
          src \in SourceChoices, sc \in Schemas \cup {"absent"}}

\* Exit codes of the bootstrap process.
ReturnCodes == {0, 1}

\* await request.json(): the document, or JSONDecodeError.
request_json(body) == [ok |-> body.valid, data |-> body]

JSONResponse(content, status) == [status |-> status, content |-> content]

\* The handler left by an exception: no response is returned.
Raises(error) == [status |-> 0, content |-> error]

BootstrapFailed_Never(returncode) == FALSE

\* bootstrap_proc.returncode is None or bootstrap_proc.returncode != 0
BootstrapFailed(returncode) == returncode # 0

Handled(response, steps) == [response |-> response, steps |-> steps]

\* The handler, from the request to its response; steps are the file write and
\* the processes it starts, in order.
sync(body, returncode) ==
  LET parsed == request_json(body) IN
  IF ~parsed.ok
    \* except JSONDecodeError: logged; then return JSONResponse(data), data unbound
    THEN Handled(Raises("UnboundLocalError"), <<>>)
  ELSE LET data == parsed.data IN
    IF ~data.has_source THEN Handled(JSONResponse("source is missing", 400), <<>>)
    ELSE IF ~(ConnFields \subseteq data.source)
      THEN Handled(JSONResponse("invalid connection details", 400), <<>>)
    ELSE IF data.schema = "absent"
      THEN Handled(JSONResponse("schema is missing", 400), <<>>)
    ELSE IF BootstrapFailed(returncode)
      THEN Handled(JSONResponse("failed to run pgsync boostrap", 400), <<"write", "bootstrap">>)
    ELSE Handled(JSONResponse("data", 200), <<"write", "bootstrap", "pgsync">>)

Has(steps, step) == \E i \in DOMAIN steps : steps[i] = step

\* One request handled. After request.json() the handler has no await: it writes
\* schema.json, waits for bootstrap (which reads the file meanwhile) and starts the
\* pgsync daemon without waiting for it.
Sync ==
  /\ Len(requests) < MaxRequests
  /\ \E body \in Bodies, returncode \in ReturnCodes :
       LET h == sync(body, returncode)
           written == IF Has(h.steps, "write") THEN body.schema ELSE schemaFile
       IN  /\ schemaFile' = written
           /\ requests' = Append(requests,
                 [body |-> body, response |-> h.response, steps |-> h.steps,
                  returncode |-> IF Has(h.steps, "bootstrap") THEN returncode ELSE 0,
                  bootstrap_read |-> IF Has(h.steps, "bootstrap") THEN written ELSE "absent"])
           /\ daemons' = IF Has(h.steps, "pgsync")
                 THEN Append(daemons, [request |-> Len(requests) + 1, read |-> "pending"])
                 ELSE daemons
  /\ UNCHANGED <<appVars, clientVars>>

\* A pgsync daemon, started with --config schema.json, reads the file.
DaemonReads(d) ==
  /\ d \in DOMAIN daemons
  /\ daemons[d].read = "pending"
  /\ daemons' = [daemons EXCEPT ![d].read = schemaFile]
  /\ UNCHANGED <<schemaFile, requests, appVars, clientVars>>

SyncNext ==
  \/ Sync
  \/ \E d \in 1..MaxRequests : DaemonReads(d)

SyncSpec == Init /\ [][SyncNext]_vars

\* ------------------------------------------------------ search client

\* Client._check_index_exists: client.indices.exists(index=index_name)
check_index_exists(name) == name \in indices

Started == Len(clientCalls) + Cardinality({c \in CallerIds : callers[c].pc # "idle"})

Ended(c, op, name, result, existed) ==
  Append(clientCalls,
    [caller |-> c, op |-> op, name |-> name, result |-> result, existed |-> existed])

\* create_index, first half: the existence check, and ValueError if the index exists.
CreateCheck(c) ==
  /\ callers[c].pc = "idle"
  /\ Started < MaxCalls
  /\ \E name \in IndexNames :
       IF check_index_exists(name)
         THEN /\ clientCalls' = Ended(c, "create_index", name, "ValueError", TRUE)
              /\ UNCHANGED callers
         ELSE /\ callers' = [callers EXCEPT ![c] = [pc |-> "create", name |-> name]]
              /\ UNCHANGED clientCalls
  /\ UNCHANGED <<indices, appVars, syncVars>>

\* create_index, second half: client.indices.create(index=index_name). The server
\* refuses to create an index that exists, and the client raises its RequestError.
CreateIssue(c) ==
  /\ callers[c].pc = "create"
  /\ LET name == callers[c].name IN
       /\ indices' = indices \cup {name}
       /\ clientCalls' = Ended(c, "create_index", name,
            IF name \in indices THEN "RequestError" ELSE "Index", name \in indices)
  /\ callers' = [callers EXCEPT ![c] = [pc |-> "idle", name |-> ""]]
  /\ UNCHANGED <<appVars, syncVars>>

\* get_index: one existence check.
GetIndex(c) ==
  /\ callers[c].pc = "idle"
  /\ Started < MaxCalls
  /\ \E name \in IndexNames :
       clientCalls' = Ended(c, "get_index", name,
         IF ~check_index_exists(name) THEN "ValueError" ELSE "Index", name \in indices)
  /\ UNCHANGED <<indices, callers, appVars, syncVars>>

\* delete_index: client.indices.delete(index=index_name, ignore=[400, 404])
DeleteIndex(c) ==
  /\ callers[c].pc = "idle"
  /\ Started < MaxCalls
  /\ \E name \in IndexNames :
       /\ indices' = indices \ {name}
       /\ clientCalls' = Ended(c, "delete_index", name, "None", name \in indices)
  /\ UNCHANGED <<callers, appVars, syncVars>>

ClientNext ==
  \/ \E c \in CallerIds : CreateCheck(c)
  \/ \E c \in CallerIds : CreateIssue(c)
  \/ \E c \in CallerIds : GetIndex(c)
  \/ \E c \in CallerIds : DeleteIndex(c)

ClientSpec == Init /\ [][ClientNext]_vars

\* ------------------------------------------------------------- claims

\* What a record says, read off the record itself.
HasPayload(record) == record.valid /\ HasKey(record.doc, "payload")

PayloadOf(record) == GetItem(record.doc, "payload")

HasIndicator(record) == HasPayload(record) /\ HasKey(PayloadOf(record), "__deleted")

\* Bytes that are not JSON, or JSON without a payload or without the indicator.
Malformed(record) == record # NoneRecord /\ ~HasIndicator(record)

IndicatorTrue(record) == HasIndicator(record) /\ GetItem(PayloadOf(record), "__deleted") = "true"

ValidUpsert(record) == HasIndicator(record) /\ ~IndicatorTrue(record)

RowOf(record) == GetItem(PayloadOf(record), "id")

Entries == {<<a, i>> : a \in AgentIds, i \in 1..MaxRecords}

Consumes == {e \in Entries : e[2] \in DOMAIN log[e[1]]}

EntryOf(e) == log[e[1]][e[2]]

\* The produce calls made for a consumed record.
MessagesOf(e) == {k \in DOMAIN queue[e[1]] : queue[e[1]][k].src = e[2]}

Stages == {"transform_fn", "embedding_fn", "metadata_fn", "avro_serializer"}

\* C1: for every consumed record whose deletion indicator is true, none of
\* transform_fn, embedding_fn, metadata_fn is called for that record.
C1_DeleteCallsNoFunction ==
  \A e \in Consumes : IndicatorTrue(EntryOf(e).record) => EntryOf(e).calls = <<>>

\* A delete consumed right after an upsert for which the functions were called.
C1_Witness ==
  \E e \in Consumes :
    /\ e[2] > 1
    /\ IndicatorTrue(EntryOf(e).record)
    /\ EntryOf(e).outcome = "deleted"
    /\ Len(log[e[1]][e[2] - 1].calls) >= 2

\* C2: a malformed record produces a dead-letter entry and leaves the agent task
\* running, so that the records after it are still processed.
C2_MalformedIsDeadLettered ==
  \A e \in Consumes :
    Malformed(EntryOf(e).record) =>
      /\ EntryOf(e).outcome = "dead_lettered"
      /\ agent[e[1]].status = "running"

\* C3: for an upsert and a later delete of the same row in one partition, once the
\* upsert is delivered and nothing more is queued, the sink holds the upsert's
\* message and, after it, the delete's.
C3_UpsertPublishBeforeDeletePublish ==
  \A e \in Consumes, f \in Consumes :
    ( /\ e[1] = f[1]
      /\ e[2] < f[2]
      /\ ValidUpsert(EntryOf(e).record)
      /\ IndicatorTrue(EntryOf(f).record)
      /\ RowOf(EntryOf(e).record) = RowOf(EntryOf(f).record)
      /\ \E k \in MessagesOf(e) : queue[e[1]][k].status = "delivered"
      /\ Queued(e[1]) = {} )
    => \E x \in Indexes : \E p \in DOMAIN sink[x], q \in DOMAIN sink[x] :
         /\ p < q
         /\ sink[x][p].agent = e[1] /\ sink[x][p].src = e[2]
         /\ sink[x][q].agent = f[1] /\ sink[x][q].src = f[2]

\* C4: after a delete record is processed, a delete message for its row has been
\* produced to the destination topic.
C4_DeleteIsForwarded ==
  \A e \in Consumes :
    (IndicatorTrue(EntryOf(e).record) /\ EntryOf(e).outcome # "raised") => MessagesOf(e) # {}

\* C5: the registry sees at most one get_schema call per schema id, however often
\* the schema is resolved and however often register_agents is called.
C5_OneRegistryCallPerId == \A s \in SchemaIds : registryCalls[s] <= 1

\* C6: a record for which a stage fails is dead-lettered with the error attached,
\* and nothing is produced for it; a produce call is made only for a record all of
\* whose stages succeeded.
C6_StageFailureIsDeadLettered ==
  \A e \in Consumes :
    /\ EntryOf(e).error \in Stages =>
         /\ EntryOf(e).outcome = "dead_lettered"
         /\ MessagesOf(e) = {}
    /\ MessagesOf(e) # {} => EntryOf(e).error = ""

\* C7: an error raised for one record (by a function, the serializer or produce)
\* never terminates the agent task.
C7_RecordErrorKeepsTaskRunning ==
  \A e \in Consumes :
    EntryOf(e).error \in Stages \cup {"produce"} => agent[e[1]].status = "running"

\* C8: a record is acknowledged only once its output is delivered to the
\* destination topic or the record is dead-lettered. Stated for the records
\* produce was called for.
C8_AckOnlyAfterDelivery ==
  \A e \in Consumes :
    (EntryOf(e).acked /\ MessagesOf(e) # {}) =>
      \/ EntryOf(e).outcome = "dead_lettered"
      \/ \A k \in MessagesOf(e) : queue[e[1]][k].status = "delivered"

\* C9: every failed delivery is reported to the pipeline.
C9_DeliveryFailureIsSurfaced ==
  \A a \in AgentIds : \A k \in DOMAIN queue[a] :
    queue[a][k].status = "failed" =>
      \E r \in DOMAIN reports :
        reports[r].agent = a /\ reports[r].src = queue[a][k].src /\ ~reports[r].ok

SameSetup(a, b) ==
  /\ agent[a].schema_id = agent[b].schema_id
  /\ agent[a].has_metadata_fn = agent[b].has_metadata_fn

C11_ProducedInArrivalOrder ==
  \A a \in AgentIds : \A k \in DOMAIN queue[a], l \in DOMAIN queue[a] :
    k < l => queue[a][k].src < queue[a][l].src

\* Two upserts of one agent, both produced.
C11_Witness ==
  \E a \in AgentIds :
    /\ Len(queue[a]) >= 2
    /\ \A k \in DOMAIN queue[a] : ValidUpsert(log[a][queue[a][k].src].record)

\* C12: every message produced carries a key derived from its record's row identity.
C12_KeyIsRowIdentity ==
  \A e \in Consumes : \A k \in MessagesOf(e) :
    queue[e[1]][k].key = RowOf(EntryOf(e).record)

\* What process_records hands the injected functions for a record: its payload
\* without the deletion flag, unpacked.
ArgsOf(record) == Unpack(Pop(PayloadOf(record), "__deleted"))

C14_EmbeddingFailureEndsDeadLettered ==
  \A e \in Consumes :
    EntryOf(e).error = "embedding_fn" =>
      /\ \E c \in DOMAIN EntryOf(e).calls : EntryOf(e).calls[c][1] = "embedding_fn"
      /\ EntryOf(e).outcome = "dead_lettered"

\* C16: transform_fn and metadata_fn receive the record's payload, the column
\* values included and the deletion flag removed.
C16_FunctionsReceivePayload ==
  \A e \in Consumes : \A c \in DOMAIN EntryOf(e).calls :
    LET call == EntryOf(e).calls[c]
        payload == Pop(PayloadOf(EntryOf(e).record), "__deleted")
    IN  call[1] \in {"transform_fn", "metadata_fn"} =>
          /\ \A i \in DOMAIN call[2] : call[2][i] # "__deleted"
          /\ \A j \in DOMAIN payload : \E i \in DOMAIN call[2] : call[2][i] = payload[j][2]

\* C15: while an embedding call for one stream's record is pending, a task with
\* records to consume (another partition's, another agent's) can consume one.
C15_SlowEmbeddingBlocksNobody ==
  \A b \in AgentIds :
    ( /\ busy # Idle
      /\ agent[b].registered
      /\ agent[b].status = "running"
      /\ Consumed < MaxRecords )
    => ENABLED ProcessRecord(b)

MissingField(body) ==
  body.valid /\ (~body.has_source \/ ~(ConnFields \subseteq body.source) \/ body.schema = "absent")

\* C17: pgsync is started only after bootstrap has exited with code 0; a non-zero
\* exit answers 400 and starts no pgsync; a request missing source, a connection
\* field or schema answers 400, writes no file and starts no process.
C17_PgsyncOnlyAfterBootstrapOk ==
  \A r \in DOMAIN requests :
    LET q == requests[r] IN
    /\ Has(q.steps, "pgsync") =>
         /\ \E i \in DOMAIN q.steps, j \in DOMAIN q.steps :
              i < j /\ q.steps[i] = "bootstrap" /\ q.steps[j] = "pgsync"
         /\ q.returncode = 0
    /\ (Has(q.steps, "bootstrap") /\ q.returncode # 0) =>
         (q.response.status = 400 /\ ~Has(q.steps, "pgsync"))
    /\ MissingField(q.body) => (q.response.status = 400 /\ q.steps = <<>>)
    /\ Cardinality({d \in DOMAIN daemons : daemons[d].request = r})
         = IF Has(q.steps, "pgsync") THEN 1 ELSE 0

\* A request whose bootstrap failed, then one whose bootstrap succeeded and whose
\* pgsync was started.
C17_Witness ==
  \E r \in DOMAIN requests, t \in DOMAIN requests :
    /\ r < t
    /\ Has(requests[r].steps, "bootstrap") /\ requests[r].returncode # 0
    /\ Has(requests[t].steps, "pgsync")
    /\ \E d \in DOMAIN daemons : daemons[d].request = t

\* C18: the handler returns a response for every request, a body that is not JSON
\* included.
C18_EveryRequestGetsResponse ==
  \A r \in DOMAIN requests : requests[r].response.status # 0

\* C19: the bootstrap process and the pgsync daemon of a request read that
\* request's schema from schema.json.
C19_ProcessesReadOwnSchema ==
  /\ \A r \in DOMAIN requests :
       Has(requests[r].steps, "bootstrap") =>
         requests[r].bootstrap_read = requests[r].body.schema
  /\ \A d \in DOMAIN daemons :
       daemons[d].read # "pending" =>
         daemons[d].read = requests[daemons[d].request].body.schema

\* C20: create_index raises ValueError for a name that exists and issues no
\* creation for it, concurrent callers included; get_index raises ValueError for a
\* name that does not exist; delete_index of a missing index does not raise.
C20_NoCreateForExistingName ==
  \A k \in DOMAIN clientCalls :
    LET call == clientCalls[k] IN
    /\ call.op = "create_index" =>
         /\ call.existed => call.result = "ValueError"
         /\ ~call.existed => call.result = "Index"
    /\ call.op = "get_index" => (call.result = "ValueError" <=> ~call.existed)
    /\ call.op = "delete_index" => call.result = "None"

====
